---- MODULE Spec2Model ----
(***************************************************************************)
(* Model of the WBTC scalping bot: the reference-price handler and the     *)
(* SignalDetector, the PositionManager, the TradeExecutor with its awaits  *)
(* as separate steps, and the StopLossManager timer. Further                *)
(* specifications add failed DEX polls, the termination signals and a      *)
(* consumer of the trade history to the bot, evaluate the stop, sizing and *)
(* slippage rules on their own, and describe the monitoring service        *)
(* (TaapiService, DexPriceMonitor, MonitoringService), a process of its    *)
(* own whose specifications start from MonInit.                            *)
(*                                                                         *)
(* Prices are integers (quote units); a JavaScript quotient is kept as a   *)
(* record so that x/0 is Infinity, -Infinity or NaN as in the code.        *)
(***************************************************************************)
EXTENDS Integers, Sequences, FiniteSets

VARIABLES
    binancePrice,     \* BinanceService.currentPrice
    dexPrice,         \* DexPriceMonitor.price
    rsi,              \* IndicatorCalculator.indicators.rsi
    ema,              \* IndicatorCalculator.indicators.ema
    currentPosition,  \* PositionManager.currentPosition (NOPOS or "long")
    entryPrice,       \* PositionManager.entryPrice
    highestPrice,     \* PositionManager.highestPrice
    lastSignal,       \* SignalDetector.lastSignal
    inflight,         \* executeBuy / executeSell calls suspended at an await
    busd,             \* wallet balance of BUSD on chain
    wbtc,             \* wallet balance of WBTC on chain
    transactions,     \* TradeExecutor.transactions
    log,              \* what the step just taken logged
    dexFails,         \* DEX polls that failed since the last one that
                      \* succeeded (the code keeps no such count: it is
                      \* followed only where FeedSpec lets polls fail)
    running,          \* the Node process is alive
    calc,             \* the last evaluation of a sizing / slippage / stop rule
    currentData,      \* TaapiService.currentData (price, indicators)
    fetchedIn,        \* the fetch cycle each field of currentData was written
                      \* in (the code keeps no such stamp)
    requestQueue,     \* TaapiService.rateLimiting.queue, the request being
                      \* processed at its head
    cyclesIssued,     \* calls of fetchDataSequentially made by the interval
    marketData,       \* MonitoringService.marketData
    dexPolls,         \* calls of updatePrice suspended at getAmountsOut
    pollsIssued,      \* calls of updatePrice made by the interval
    dexStored,        \* the call of updatePrice that wrote the DEX price
                      \* (the code keeps no such stamp)
    previousRsi,      \* IndicatorCalculator.indicators.previousRsi
    previousEma,      \* IndicatorCalculator.indicators.previousEma (nothing
                      \* in the bot reads the two previous values: they are
                      \* followed only in IndSpec)
    queue,            \* TaapiService.rateLimiting.queue with its timing,
                      \* followed in RlSpec (requestQueue above follows
                      \* which request of a fetch cycle is at the head)
    processing,       \* TaapiService.rateLimiting.processing
    timeSinceLastRequest,
                      \* Date.now() - rateLimiting.lastRequestTime, in ms,
                      \* kept up to AgeCap
    minTimeBetweenRequests,
                      \* TaapiService.rateLimiting.minTimeBetweenRequests
    passes,           \* calls of processRequestQueue suspended at an await
                      \* or scheduled by setTimeout
    enqueued,         \* for each call of makeRateLimitedRequest, what the
                      \* queue was doing when it was made
    started,          \* the requests whose requestFn was called, in order,
                      \* each with the time since the start before it
    settled,          \* the promises resolved or rejected, in order
    timeSinceStart,   \* ms since requestFn was last called, up to AgeCap
                      \* (the code keeps no such time)
    sockets,          \* the WebSockets BinanceService.connectWebSocket has
                      \* created, in order (this.ws is the last), each with
                      \* its state and the reconnects its handlers scheduled
    reconnectTimers,  \* pending setTimeout(() => this.connectWebSocket())
    delivered,        \* calls of the onPriceUpdate callback that the last
                      \* price message of the stream caused
    timerHandle,      \* per poller, the handle it keeps (updateInterval,
                      \* monitoringInterval, cronJob)
    activeTimers,     \* the timers that are ticking, as <<poller, id>>
    lastCall,         \* per poller, the last of start / shutdown called
    timersMade        \* per poller, the timers it has created

vars == <<binancePrice, dexPrice, rsi, ema, currentPosition, entryPrice,
          highestPrice, lastSignal, inflight, busd, wbtc, transactions, log,
          dexFails, running, calc, currentData, fetchedIn, requestQueue,
          cyclesIssued, marketData, dexPolls, pollsIssued, dexStored,
          previousRsi, previousEma, queue, processing,
          timeSinceLastRequest, minTimeBetweenRequests, passes, enqueued,
          started, settled, timeSinceStart, sockets, reconnectTimers,
          delivered, timerHandle, activeTimers, lastCall, timersMade>>

coreVars == <<binancePrice, dexPrice, rsi, ema, currentPosition, entryPrice,
              highestPrice, lastSignal, inflight, busd, wbtc, transactions,
              log, dexFails, running, calc>>

\* the state of the monitoring service, which the bot does not run
monVars == <<currentData, fetchedIn, requestQueue, cyclesIssued, marketData,
             dexPolls, pollsIssued, dexStored>>

indVars == <<previousRsi, previousEma>>

rlVars == <<queue, processing, timeSinceLastRequest, minTimeBetweenRequests,
            passes, enqueued, started, settled, timeSinceStart>>

\* the state of components that is followed only in the specification of
\* the component
wsVars == <<sockets, reconnectTimers, delivered>>

timerVars == <<timerHandle, activeTimers, lastCall, timersMade>>

\* the state of components that is followed only in the specification of
\* the component
partVars == <<indVars, rlVars, wsVars, timerVars>>

-----------------------------------------------------------------------------
(* Bounds of the model *)

\* executions that may be suspended at the same time
MaxInFlight == 2
\* executions started or recorded overall
MaxTrades == 2
\* BUSD in the wallet when the bot starts (smallest units)
InitBusd == 10
\* failed DEX polls in a row that are counted
MaxDexFails == 3

(* Inputs the feeds deliver *)
RefPrices == {994, 1000, 1007}
\* prices a successful DEX fetch delivers
DexPrices == {994, 1000, 1007}
RsiValues == {25, 30, 75}
EmaValues == {1000}

-----------------------------------------------------------------------------
(* Configuration *)

\* JavaScript null in a number field
NULL == -1
\* JavaScript undefined in a number field (the last element of an empty array)
UNDEF == -2
\* PositionManager.currentPosition when no position is held (null)
NOPOS == "null"
\* trading.minProfitThreshold = 0.006 = MinProfitThreshold / Scale
MinProfitThreshold == 6
\* trading.trailingStopLoss = 0.005 = TrailingStopLoss / Scale
TrailingStopLoss == 5
Scale == 1000
RsiOversoldLevel == 30
RsiOverboughtLevel == 70
\* indicators.rsi.period and indicators.ema.period
RsiPeriod == 14
EmaPeriod == 20
\* wallet.maxCapitalPerTrade * 100
MaxPercent == 10
\* Math.floor((1 - trading.maxSlippage) * 10000)
SlippageFactor == 9980

\* rateLimiting.minTimeBetweenRequests as constructed, what a 429 adds to
\* it, and the delay of the next pass over the queue (ms)
MinTimeBetweenRequests == 15000
RateLimitStep == 1000
QueueGap == 100

\* calls of connectWebSocket in a run
MaxSockets == 3

\* calls of a poller's start function in a run
MaxStarts == 2

\* calls of makeRateLimitedRequest in a run
MaxRequests == 3

\* every waiting time the limiter can reach is at most AgeCap: a time that
\* has grown to AgeCap is past every threshold it is compared with
AgeCap == MinTimeBetweenRequests + RateLimitStep * (MaxRequests + 1)

-----------------------------------------------------------------------------
(* JavaScript number division and comparison *)

\* n / d for a denominator d >= 0: a finite quotient, or what IEEE division
\* by zero gives
JSDiv(n, d) ==
    IF d # 0 THEN [k |-> "fin", n |-> n, d |-> d]
    ELSE IF n > 0 THEN [k |-> "inf", n |-> 0, d |-> 1]
    ELSE IF n < 0 THEN [k |-> "ninf", n |-> 0, d |-> 1]
    ELSE [k |-> "nan", n |-> 0, d |-> 1]

\* q > num / Scale (every comparison with NaN is false)
JSGreater(q, num) ==
    CASE q.k = "fin" -> q.n * Scale > num * q.d
      [] q.k = "inf" -> TRUE
      [] OTHER -> FALSE

-----------------------------------------------------------------------------
(* IndicatorCalculator *)

\* a < b on numbers in JavaScript: false when either side is undefined
JSLess(a, b) == a # UNDEF /\ b # UNDEF /\ a < b

\* isRsiOversold without the test for null (null < 30 is true in JavaScript)
isRsiOversoldUntested(r) == r = NULL \/ JSLess(r, RsiOversoldLevel)

isRsiOversold(r) == r # NULL /\ JSLess(r, RsiOversoldLevel)

isRsiOverbought(r) == r # NULL /\ JSLess(RsiOverboughtLevel, r)

isPriceAboveEma(e, price) == e # NULL /\ JSLess(e, price)

isPriceBelowEma(e, price) == e # NULL /\ JSLess(price, e)

\* isRsiRisingFromOversold comparing with <= instead of <
isRsiRisingFromOversoldLoose(prev, r) ==
    /\ prev # NULL
    /\ r # NULL
    /\ prev # UNDEF /\ r # UNDEF /\ prev <= r
    /\ JSLess(prev, RsiOversoldLevel)

isRsiRisingFromOversold(prev, r) ==
    /\ prev # NULL
    /\ r # NULL
    /\ JSLess(prev, r)
    /\ JSLess(prev, RsiOversoldLevel)

isRsiFallingFromOverbought(prev, r) ==
    /\ prev # NULL
    /\ r # NULL
    /\ JSLess(r, prev)
    /\ JSLess(RsiOverboughtLevel, prev)

\* the number of values technicalindicators.RSI.calculate returns for n
\* prices (one per price after the first period prices)
RsiCount(n) == IF n > RsiPeriod THEN n - RsiPeriod ELSE 0

\* the number of values technicalindicators.EMA.calculate returns for n
\* prices (the first is the average of the first period prices)
EmaCount(n) == IF n >= EmaPeriod THEN n - EmaPeriod + 1 ELSE 0

-----------------------------------------------------------------------------------------------------------------------------------------------------
(* DexPriceMonitor *)

calculatePriceDifference(price, bin) ==
    IF price = 0 \/ bin = 0 THEN JSDiv(0, 1)
    ELSE JSDiv(bin - price, price)

-----
(* SignalDetector *)

buyGap(bin, dex) == JSDiv(bin - dex, dex)

sellGap(bin, dex) == JSDiv(dex - bin, bin)

\* checkBuySignal without the test of the current position
checkBuySignalUngated(pos, bin, dex, r, e) ==
    /\ isRsiOversold(r)
    /\ isPriceAboveEma(e, bin)
    /\ JSGreater(buyGap(bin, dex), MinProfitThreshold)

\* checkBuySignal deciding by two conditions out of three
checkBuySignalMajority(pos, bin, dex, r, e) ==
    IF pos # NOPOS THEN FALSE
    ELSE LET a == isRsiOversold(r)
             b == isPriceAboveEma(e, bin)
             c == JSGreater(buyGap(bin, dex), MinProfitThreshold)
         IN  (a /\ b) \/ (a /\ c) \/ (b /\ c)

checkBuySignal(pos, bin, dex, r, e) ==
    IF pos # NOPOS THEN FALSE
    ELSE /\ isRsiOversold(r)
         /\ isPriceAboveEma(e, bin)
         /\ JSGreater(buyGap(bin, dex), MinProfitThreshold)

\* checkSellSignal written by pasting the conditions of checkBuySignal, the
\* test of the position lost
checkSellSignalPasted(pos, bin, dex, r, e) ==
    /\ isRsiOversold(r)
    /\ isPriceAboveEma(e, bin)
    /\ JSGreater(buyGap(bin, dex), MinProfitThreshold)

checkSellSignal(pos, bin, dex, r, e) ==
    IF pos # "long" THEN FALSE
    ELSE /\ isRsiOverbought(r)
         /\ isPriceBelowEma(e, bin)
         /\ JSGreater(sellGap(bin, dex), MinProfitThreshold)

NoSignal == [type |-> "none", binancePrice |-> 0, dexPrice |-> 0,
             priceGap |-> JSDiv(0, 1)]

-----------------------------------------------------------------------------
(* PositionManager: each operation maps the position to the position after *)

Position == [type |-> currentPosition, entry |-> entryPrice,
             highest |-> highestPrice]

openPosition(pos, price) ==
    [type |-> "long", entry |-> price, highest |-> price]

closePosition(pos, price) ==
    IF pos.type = NOPOS THEN pos
    ELSE [type |-> NOPOS, entry |-> NULL, highest |-> NULL]

\* updateHighestPrice storing the latest price, higher or not
updateHighestPriceLatest(pos, price) ==
    IF pos.type # NOPOS THEN [pos EXCEPT !.highest = price] ELSE pos

updateHighestPrice(pos, price) ==
    IF pos.type # NOPOS /\ price > pos.highest
    THEN [pos EXCEPT !.highest = price]
    ELSE pos

\* shouldTriggerStopLoss comparing with <= instead of <
shouldTriggerStopLossInclusive(pos, price) ==
    IF pos.type = NOPOS \/ pos.highest = NULL \/ pos.highest = 0 THEN FALSE
    ELSE price * Scale <= pos.highest * (Scale - TrailingStopLoss)

shouldTriggerStopLoss(pos, price) ==
    IF pos.type = NOPOS \/ pos.highest = NULL \/ pos.highest = 0 THEN FALSE
    ELSE price * Scale < pos.highest * (Scale - TrailingStopLoss)

SetPosition(pos) ==
    /\ currentPosition' = pos.type
    /\ entryPrice' = pos.entry
    /\ highestPrice' = pos.highest

-----------------------------------------------------------------------------
(* CapitalAllocator, SlippageController and the router's quote *)

\* getTradeAmount without the division by 100
getTradeAmountTimes(balance) == balance * MaxPercent

getTradeAmount(balance) == (balance * MaxPercent) \div 100

\* applySlippage rounding the minimum up
applySlippageCeil(amount, tradeType) ==
    (amount * SlippageFactor + 9999) \div 10000

\* applySlippage adding the tolerance on the sell side
applySlippageAdded(amount, tradeType) ==
    IF tradeType = "sell"
    THEN (amount * (20000 - SlippageFactor)) \div 10000
    ELSE (amount * SlippageFactor) \div 10000

applySlippage(amount, tradeType) == (amount * SlippageFactor) \div 10000

\* pancakeRouter.getAmountsOut: the quotes the pool may give for amountIn, at
\* most one unit out per unit in and rounded down by the pool, so possibly 0
getAmountsOut(kind, amountIn) == 0..amountIn

\* no sizing, slippage or stop rule has been evaluated yet
NoCalc == [op |-> "none"]

-----------------------------------------------------------------------------
(* Executions in flight *)

NewTask(kind, origin) ==
    [kind |-> kind, origin |-> origin, pc |-> "balance", amt |-> 0, out |-> 0,
     min |-> 0]

RemoveAt(s, i) == [j \in 1..(Len(s) - 1) |-> IF j < i THEN s[j] ELSE s[j + 1]]

\* the model starts an execution only while its bounds leave room for one
CanStart ==
    /\ Len(inflight) < MaxInFlight
    /\ Len(inflight) + Len(transactions) < MaxTrades

Logged(op, kind, origin) == [op |-> op, kind |-> kind, origin |-> origin]

-----------------------------------------------------------------------------
(* TaapiService and MonitoringService as their constructors leave them *)

NoData == [price |-> 0, rsi |-> NULL, ema |-> NULL]

NoMarketData ==
    [centralized |-> [price |-> 0, rsi |-> NULL, ema |-> NULL],
     dex |-> [price |-> 0],
     priceDifference |-> JSDiv(0, 1)]

-----------------------------------------------------------------------------
\* The bot after initialize(): the first DEX fetch has succeeded or failed,
\* no kline message has arrived yet; the wallet holds BUSD or is empty
\* BinanceService before initialize(): no WebSocket
NoSocket ==
    /\ sockets = <<>>
    /\ reconnectTimers = 0
    /\ delivered = 0

\* the services that poll on a timer
Pollers == {"DexPriceMonitor", "StopLossManager", "NetworkMonitor",
            "TaapiService"}

\* the pollers as their constructors leave them: the handle is null
NoTimers ==
    /\ timerHandle = [p \in Pollers |-> NULL]
    /\ activeTimers = {}
    /\ lastCall = [p \in Pollers |-> "none"]
    /\ timersMade = [p \in Pollers |-> 0]

\* TaapiService.rateLimiting as the constructor leaves it: lastRequestTime
\* is 0, which Date.now() is further from than any waiting time
RateLimitingInit ==
    /\ queue = <<>>
    /\ processing = FALSE
    /\ timeSinceLastRequest = AgeCap
    /\ minTimeBetweenRequests = MinTimeBetweenRequests
    /\ passes = {}
    /\ enqueued = <<>>
    /\ started = <<>>
    /\ settled = <<>>
    /\ timeSinceStart = AgeCap

Init ==
    /\ binancePrice = 0
    /\ dexPrice \in DexPrices \union {0}
    /\ rsi = NULL
    /\ ema = NULL
    /\ currentPosition = NOPOS
    /\ entryPrice = NULL
    /\ highestPrice = NULL
    /\ lastSignal = NoSignal
    /\ inflight = <<>>
    /\ busd \in {0, InitBusd}
    /\ wbtc = 0
    /\ transactions = <<>>
    /\ log = Logged("init", "none", "none")
    /\ dexFails = 0
    /\ running = TRUE
    /\ calc = NoCalc
    /\ currentData = NoData
    /\ fetchedIn = [price |-> 0, rsi |-> 0, ema |-> 0]
    /\ requestQueue = <<>>
    /\ cyclesIssued = 0
    /\ marketData = NoMarketData
    /\ dexPolls = {}
    /\ pollsIssued = 0
    /\ dexStored = 0
    /\ previousRsi = NULL
    /\ previousEma = NULL
    /\ RateLimitingInit
    /\ NoSocket
    /\ NoTimers

\* A poll of DexPriceMonitor.updatePrice resolves with price p. initialize
\* starts the polling only after its own first fetch succeeded: when that
\* fetch failed the price stays 0 and the bot runs on
DexPriceUpdate(p) ==
    /\ running
    /\ dexPrice # 0
    /\ dexPrice' = p
    /\ dexFails' = 0
    /\ log' = Logged("dex", "none", "none")
    /\ UNCHANGED <<binancePrice, rsi, ema, currentPosition, entryPrice,
                   highestPrice, lastSignal, inflight, busd, wbtc,
                   transactions, running, calc, monVars, partVars>>

\* A poll of DexPriceMonitor.updatePrice rejects: the interval callback logs
\* the error and the price of the last successful poll stays in place
DexPriceFail ==
    /\ running
    /\ dexPrice # 0
    /\ dexFails < MaxDexFails
    /\ dexFails' = dexFails + 1
    /\ log' = Logged("dexfail", "none", "none")
    /\ UNCHANGED <<binancePrice, dexPrice, rsi, ema, currentPosition,
                   entryPrice, highestPrice, lastSignal, inflight, busd, wbtc,
                   transactions, running, calc, monVars, partVars>>

\* The kline message handler of BinanceService and the onPriceUpdate
\* handler of the bot: (r, e) are the indicator values the library computes
\* from the price history, fresh = FALSE when the history is still too short
PriceUpdate(p, r, e, fresh) ==
    LET r2 == IF fresh THEN r ELSE rsi
        e2 == IF fresh THEN e ELSE ema
        buy == checkBuySignal(currentPosition, p, dexPrice, r2, e2)
        sell == checkSellSignal(currentPosition, p, dexPrice, r2, e2)
        afterBuy == IF buy THEN Append(inflight, NewTask("buy", "signal"))
                    ELSE inflight
    IN  /\ running
        /\ fresh \/ rsi = NULL
        /\ (buy \/ sell) => CanStart
        /\ binancePrice' = p
        /\ rsi' = r2
        /\ ema' = e2
        /\ lastSignal' =
              IF sell THEN [type |-> "sell", binancePrice |-> p,
                            dexPrice |-> dexPrice,
                            priceGap |-> sellGap(p, dexPrice)]
              ELSE IF buy THEN [type |-> "buy", binancePrice |-> p,
                                dexPrice |-> dexPrice,
                                priceGap |-> buyGap(p, dexPrice)]
              ELSE lastSignal
        /\ inflight' = IF sell THEN Append(afterBuy, NewTask("sell", "signal"))
                       ELSE afterBuy
        /\ log' = Logged("price",
                         IF buy /\ sell THEN "both"
                         ELSE IF buy THEN "buy"
                         ELSE IF sell THEN "sell" ELSE "none",
                         "signal")
        /\ UNCHANGED <<dexPrice, currentPosition, entryPrice, highestPrice,
                       busd, wbtc, transactions, dexFails, running, calc,
                       monVars, partVars>>

\* One tick of the StopLossManager interval, up to the await in executeSell
StopLossTick ==
    LET pos == updateHighestPrice(Position, dexPrice)
        trigger == shouldTriggerStopLoss(pos, dexPrice)
    IN  /\ running
        /\ UNCHANGED <<dexFails, running, calc, monVars, partVars>>
        /\ IF currentPosition = NOPOS
           THEN /\ log' = Logged("tick", "none", "stoploss")
                /\ UNCHANGED <<binancePrice, dexPrice, rsi, ema,
                               currentPosition, entryPrice, highestPrice,
                               lastSignal, inflight, busd, wbtc, transactions>>
           ELSE /\ trigger => CanStart
                /\ SetPosition(pos)
                /\ inflight' = IF trigger
                               THEN Append(inflight,
                                           NewTask("sell", "stoploss"))
                               ELSE inflight
                /\ log' = Logged("tick", IF trigger THEN "sell" ELSE "none",
                                 "stoploss")
                /\ UNCHANGED <<binancePrice, dexPrice, rsi, ema, lastSignal,
                               busd, wbtc, transactions>>

\* A handler that does not test the result before it moves the position
HandlerResultUnchecked(t, truthy, pos, price) ==
    IF t.origin = "signal"
    THEN IF t.kind = "buy" THEN openPosition(pos, price)
                           ELSE closePosition(pos, price)
    ELSE pos

\* What the caller does when executeBuy / executeSell returns: the signal
\* handlers move the position if the result is truthy (a trade record, not
\* false); checkStopLoss returns the result and leaves the position alone
HandlerResult(t, truthy, pos, price) ==
    IF t.origin = "signal" /\ truthy
    THEN IF t.kind = "buy" THEN openPosition(pos, price)
                           ELSE closePosition(pos, price)
    ELSE pos

\* executeBuy / executeSell going on to the quote without the test of the
\* size
ExecBalanceUnguarded(i) ==
    LET t == inflight[i]
        amt == IF t.kind = "buy" THEN getTradeAmount(busd) ELSE wbtc
    IN  /\ running
        /\ t.pc = "balance"
        /\ inflight' = [inflight EXCEPT ![i].pc = "quote", ![i].amt = amt]
        /\ log' = Logged("sized", t.kind, t.origin)
        /\ UNCHANGED <<binancePrice, dexPrice, rsi, ema, currentPosition,
                       entryPrice, highestPrice, lastSignal, busd, wbtc,
                       transactions, dexFails, running, calc,
                       monVars, partVars>>

\* The await of the balance read resolves: CapitalAllocator.getTradeAmount
\* for a buy, wbtcToken.balanceOf for a sell; a size <= 0 returns false
ExecBalance(i) ==
    LET t == inflight[i]
        amt == IF t.kind = "buy" THEN getTradeAmount(busd) ELSE wbtc
    IN  /\ running
        /\ t.pc = "balance"
        /\ IF amt <= 0
           THEN /\ inflight' = RemoveAt(inflight, i)
                /\ SetPosition(HandlerResult(t, FALSE, Position, dexPrice))
                /\ log' = Logged("notrade", t.kind, t.origin)
           ELSE /\ inflight' = [inflight EXCEPT ![i].pc = "quote",
                                                ![i].amt = amt]
                /\ UNCHANGED <<currentPosition, entryPrice, highestPrice>>
                /\ log' = Logged("sized", t.kind, t.origin)
        /\ UNCHANGED <<binancePrice, dexPrice, rsi, ema, lastSignal, busd,
                       wbtc, transactions, dexFails, running, calc,
                       monVars, partVars>>

\* The await of pancakeRouter.getAmountsOut resolves with the quote q, and
\* SlippageController.applySlippage computes the minimum from it
ExecQuote(i, q) ==
    LET t == inflight[i]
    IN  /\ running
        /\ t.pc = "quote"
        /\ q \in getAmountsOut(t.kind, t.amt)
        /\ inflight' = [inflight EXCEPT
                           ![i].pc = "swap",
                           ![i].out = q,
                           ![i].min = applySlippage(q, t.kind)]
        /\ log' = Logged("quoted", t.kind, t.origin)
        /\ UNCHANGED <<binancePrice, dexPrice, rsi, ema, currentPosition,
                       entryPrice, highestPrice, lastSignal, busd, wbtc,
                       transactions, dexFails, running, calc,
                       monVars, partVars>>

\* swapExactTokensForTokens is sent and its await resolves with the
\* transaction
ExecSwap(i) ==
    LET t == inflight[i]
    IN  /\ running
        /\ t.pc = "swap"
        /\ inflight' = [inflight EXCEPT ![i].pc = "wait"]
        /\ log' = Logged("submitted", t.kind, t.origin)
        /\ UNCHANGED <<binancePrice, dexPrice, rsi, ema, currentPosition,
                       entryPrice, highestPrice, lastSignal, busd, wbtc,
                       transactions, dexFails, running, calc,
                       monVars, partVars>>

\* The swap is mined (the wallet holds the amount in, the pool pays the
\* quoted amount, which is positive and at least the minimum out),
\* swapTx.wait() resolves, the record is pushed and returned, and the caller
\* continues
ExecConfirm(i) ==
    LET t == inflight[i]
    IN  /\ running
        /\ t.pc = "wait"
        /\ IF t.kind = "buy" THEN busd >= t.amt ELSE wbtc >= t.amt
        /\ t.out > 0
        /\ t.out >= t.min
        /\ busd' = IF t.kind = "buy" THEN busd - t.amt ELSE busd + t.out
        /\ wbtc' = IF t.kind = "buy" THEN wbtc + t.out ELSE wbtc - t.amt
        /\ transactions' = Append(transactions,
                                  [type |-> t.kind, amountIn |-> t.amt,
                                   amountOut |-> t.out])
        /\ inflight' = RemoveAt(inflight, i)
        /\ SetPosition(HandlerResult(t, TRUE, Position, dexPrice))
        /\ log' = Logged("filled", t.kind, t.origin)
        /\ UNCHANGED <<binancePrice, dexPrice, rsi, ema, lastSignal, dexFails,
                       running, calc, monVars, partVars>>

\* The awaited call rejects (network error, revert) at whichever await the
\* execution is suspended: the catch block logs and rethrows, the caller's
\* promise is rejected and its continuation never runs. Nothing handles the
\* rejected promise of the async handler (signal callback or interval
\* callback): the runtime either warns and goes on, or ends the process
\* (fatal), depending on its version and flags
ExecFail(i, fatal) ==
    LET t == inflight[i]
    IN  /\ running
        /\ inflight' = RemoveAt(inflight, i)
        /\ running' = ~fatal
        /\ log' = Logged("failed", t.kind, t.origin)
        /\ UNCHANGED <<binancePrice, dexPrice, rsi, ema, currentPosition,
                       entryPrice, highestPrice, lastSignal, busd, wbtc,
                       transactions, dexFails, calc, monVars, partVars>>

Next ==
    \/ \E p \in DexPrices : DexPriceUpdate(p)
    \/ \E p \in RefPrices, r \in RsiValues, e \in EmaValues,
          fresh \in BOOLEAN : PriceUpdate(p, r, e, fresh)
    \/ StopLossTick
    \/ \E i \in 1..Len(inflight) : ExecBalance(i)
    \/ \E i \in 1..Len(inflight), q \in 0..InitBusd : ExecQuote(i, q)
    \/ \E i \in 1..Len(inflight) : ExecSwap(i)
    \/ \E i \in 1..Len(inflight) : ExecConfirm(i)
    \/ \E i \in 1..Len(inflight), fatal \in BOOLEAN : ExecFail(i, fatal)

\* A DEX poll that fails leaves every field of the program as it was: Spec
\* takes it as a step that changes nothing
Spec == Init /\ [][Next]_vars

\* The bot with the failed DEX polls counted
FeedNext ==
    \/ Next
    \/ DexPriceFail

FeedSpec == Init /\ [][FeedNext]_vars

\* A signal handler that calls bot.shutdown() and returns: the intervals are
\* cleared and the WebSocket is closed, the process lives on
ShutdownAndReturn ==
    /\ running
    /\ log' = Logged("shutdown", "none", "none")
    /\ UNCHANGED <<binancePrice, dexPrice, rsi, ema, currentPosition,
                   entryPrice, highestPrice, lastSignal, inflight, busd, wbtc,
                   transactions, dexFails, running, calc, monVars, partVars>>

\* SIGINT / SIGTERM is delivered: the handler calls bot.shutdown(), which
\* closes the WebSocket and clears the three intervals, and then
\* process.exit(). The process ends in that turn of the event loop: what is
\* suspended at an await is never resumed, and the 'close' handler of the
\* WebSocket, which would reconnect, never runs
Shutdown ==
    /\ running
    /\ running' = FALSE
    /\ log' = Logged("shutdown", "none", "none")
    /\ UNCHANGED <<binancePrice, dexPrice, rsi, ema, currentPosition,
                   entryPrice, highestPrice, lastSignal, inflight, busd, wbtc,
                   transactions, dexFails, calc, monVars, partVars>>

\* The bot with the termination signals delivered
LifeNext ==
    \/ Next
    \/ Shutdown

LifeSpec == Init /\ [][LifeNext]_vars

\* A caller of getTransactionHistory() removes the last element of the list
\* it was handed (pop): the list is this.transactions itself, not a copy
HistoryPop ==
    /\ running
    /\ transactions # <<>>
    /\ transactions' = SubSeq(transactions, 1, Len(transactions) - 1)
    /\ log' = Logged("reader", "none", "none")
    /\ UNCHANGED <<binancePrice, dexPrice, rsi, ema, currentPosition,
                   entryPrice, highestPrice, lastSignal, inflight, busd, wbtc,
                   dexFails, running, calc, monVars, partVars>>

\* The bot with a consumer of the trade history; a run is followed up to
\* the first change the consumer makes
ReaderNext ==
    \/ log.op # "reader" /\ \E p \in DexPrices : DexPriceUpdate(p)
    \/ log.op # "reader" /\
          \E p \in RefPrices, r \in RsiValues, e \in EmaValues,
             fresh \in BOOLEAN : PriceUpdate(p, r, e, fresh)
    \/ log.op # "reader" /\ StopLossTick
    \/ log.op # "reader" /\ \E i \in 1..Len(inflight) : ExecBalance(i)
    \/ log.op # "reader" /\
          \E i \in 1..Len(inflight), q \in 0..InitBusd : ExecQuote(i, q)
    \/ log.op # "reader" /\ \E i \in 1..Len(inflight) : ExecSwap(i)
    \/ log.op # "reader" /\ \E i \in 1..Len(inflight) : ExecConfirm(i)
    \/ log.op # "reader" /\
          \E i \in 1..Len(inflight), fatal \in BOOLEAN : ExecFail(i, fatal)
    \/ HistoryPop

ReaderSpec == Init /\ [][ReaderNext]_vars

-----------------------------------------------------------------------------
(* The rules of PositionManager, CapitalAllocator and SlippageController   *)
(* evaluated on their own, on inputs wider than a run of the bot reaches   *)

\* largest balance and largest amount of the dense input ranges
MaxBalance == 30

Balances == 0..MaxBalance \union {100, 1000}

Amounts == 0..MaxBalance \union {100, 1000}

PeakPrices == {0, 200, 1000, 51000}

StopPrices == {0, 199, 200, 994, 995, 50700, 50744, 50745, 51000}

\* the positions PositionManager can hold: none, or long with a peak that
\* is at least the entry price
Positions ==
    {[type |-> NOPOS, entry |-> NULL, highest |-> NULL]} \union
    {[type |-> "long", entry |-> eh[1], highest |-> eh[2]] :
        eh \in {x \in PeakPrices \X PeakPrices : x[2] >= x[1]}}

mainVars == <<binancePrice, dexPrice, rsi, ema, currentPosition, entryPrice,
              highestPrice, lastSignal, inflight, busd, wbtc, transactions,
              log, dexFails, running, monVars, partVars>>

CalcStopLoss(pos, price) ==
    /\ calc' = [op |-> "stop", type |-> pos.type, highest |-> pos.highest,
                price |-> price, out |-> shouldTriggerStopLoss(pos, price)]
    /\ UNCHANGED mainVars

CalcTradeAmount(balance) ==
    /\ calc' = [op |-> "size", balance |-> balance,
                out |-> getTradeAmount(balance)]
    /\ UNCHANGED mainVars

CalcSlippage(amount, tradeType) ==
    /\ calc' = [op |-> "slip", amount |-> amount, tradeType |-> tradeType,
                out |-> applySlippage(amount, tradeType)]
    /\ UNCHANGED mainVars

\* executeBuy / executeSell from the balance read to the arguments of the
\* swap: the size, the quote for the size, the minimum for the quote
CalcTrade(kind, balance, quote) ==
    LET size == IF kind = "buy" THEN getTradeAmount(balance) ELSE balance
    IN  /\ size > 0
        /\ quote \in getAmountsOut(kind, size)
        /\ calc' = [op |-> "trade", kind |-> kind, balance |-> balance,
                    size |-> size, expected |-> quote,
                    min |-> applySlippage(quote, kind)]
        /\ UNCHANGED mainVars

CalcNext ==
    \/ \E pos \in Positions, price \in StopPrices : CalcStopLoss(pos, price)
    \/ \E balance \in Balances : CalcTradeAmount(balance)
    \/ \E amount \in Amounts, tradeType \in {"buy", "sell"} :
          CalcSlippage(amount, tradeType)
    \/ \E kind \in {"buy", "sell"}, balance \in Balances, quote \in Amounts :
          CalcTrade(kind, balance, quote)

CalcSpec == Init /\ [][CalcNext]_vars

-----------------------------------------------------------------------------
(* IndicatorCalculator on its own, on price series of every length         *)

\* lengths of the price series given to updateIndicators
Lengths == {13, 14, 15, 19, 20}

indFrame == <<binancePrice, dexPrice, currentPosition, entryPrice,
              highestPrice, lastSignal, inflight, busd, wbtc, transactions,
              dexFails, running, monVars, rlVars, wsVars, timerVars>>

\* IndicatorCalculator as its constructor leaves it
IndInit ==
    /\ Init
    /\ dexPrice = 0
    /\ busd = 0

\* updateIndicators(prices) for a series of n prices from which the library
\* computes RSI values ending in r and EMA values ending in e: a series
\* shorter than the RSI period returns false; otherwise the previous values
\* are shifted and the last element of each result is stored, undefined
\* when the result is empty, in which case the toFixed of the debug line
\* throws a TypeError after the four fields were written
updateIndicators(n, r, e) ==
    LET r2 == IF RsiCount(n) > 0 THEN r ELSE UNDEF
        e2 == IF EmaCount(n) > 0 THEN e ELSE UNDEF
    IN  /\ running
        /\ IF n < RsiPeriod
           THEN /\ log' = Logged("indicators", "rejected", "none")
                /\ UNCHANGED <<rsi, ema, previousRsi, previousEma>>
           ELSE /\ previousRsi' = rsi
                /\ previousEma' = ema
                /\ rsi' = r2
                /\ ema' = e2
                /\ log' = Logged("indicators",
                                 IF r2 = UNDEF \/ e2 = UNDEF THEN "threw"
                                 ELSE "updated",
                                 "none")
        /\ UNCHANGED <<calc, indFrame>>

\* The predicates of IndicatorCalculator evaluated on the stored values, and
\* the two signal checks that read them, for a reference price bin and a
\* DEX price dex
EvalIndicators(bin, dex) ==
    /\ running
    /\ calc' = [op |-> "ind", rsi |-> rsi, previousRsi |-> previousRsi,
                oversold |-> isRsiOversold(rsi),
                overbought |-> isRsiOverbought(rsi),
                rising |-> isRsiRisingFromOversold(previousRsi, rsi),
                falling |-> isRsiFallingFromOverbought(previousRsi, rsi),
                buy |-> checkBuySignal(NOPOS, bin, dex, rsi, ema),
                sell |-> checkSellSignal("long", bin, dex, rsi, ema)]
    /\ UNCHANGED <<rsi, ema, previousRsi, previousEma, log, indFrame>>

IndNext ==
    \/ \E n \in Lengths, r \in RsiValues, e \in EmaValues :
          updateIndicators(n, r, e)
    \/ \E bin \in RefPrices, dex \in DexPrices \union {0} :
          EvalIndicators(bin, dex)

IndSpec == IndInit /\ [][IndNext]_vars

-----------------------------------------------------------------------------
(* The monitoring service: TaapiService fetching price, RSI and EMA one     *)
(* request at a time through its rate-limited queue, DexPriceMonitor        *)
(* polling the router, and MonitoringService keeping marketData from the    *)
(* callbacks of both                                                        *)

\* calls of fetchDataSequentially the interval makes
MaxCycles == 2
\* calls of updatePrice the interval makes
MaxPolls == 2

updatePriceDifference(md) ==
    [md EXCEPT !.priceDifference =
        IF md.centralized.price = 0 \/ md.dex.price = 0 THEN JSDiv(0, 1)
        ELSE JSDiv(md.centralized.price - md.dex.price, md.dex.price)]

\* the callback setupDataFlow gives to TaapiService.onDataUpdate
onDataUpdate(md, data) ==
    updatePriceDifference(
        [md EXCEPT !.centralized = [price |-> data.price, rsi |-> data.rsi,
                                    ema |-> data.ema]])

\* the DEX callback storing the price and leaving the difference as it is
onPriceUpdateStoreOnly(md, price) == [md EXCEPT !.dex.price = price]

\* the callback setupDataFlow gives to DexPriceMonitor.onPriceUpdate
onPriceUpdate(md, price) ==
    updatePriceDifference([md EXCEPT !.dex.price = price])

\* the values TAAPI.io answers a request for price, RSI or EMA with
TaapiValues(step) ==
    CASE step = "price" -> RefPrices
      [] step = "rsi" -> RsiValues
      [] OTHER -> EmaValues

\* the request fetchDataSequentially makes after the one for step
NextStep(step) == IF step = "price" THEN "rsi" ELSE "ema"

botVars == <<binancePrice, rsi, ema, currentPosition, entryPrice,
             highestPrice, lastSignal, inflight, busd, wbtc, transactions,
             dexFails, calc, partVars>>

\* The monitoring service after MonitoringService.initialize(): the first
\* fetchDataSequentially has succeeded (cycle 0), the first DEX fetch has
\* succeeded or failed, and both ran before setupDataFlow registered the
\* callbacks, so marketData is still as constructed
MonInit ==
    /\ binancePrice = 0
    /\ rsi = NULL
    /\ ema = NULL
    /\ currentPosition = NOPOS
    /\ entryPrice = NULL
    /\ highestPrice = NULL
    /\ lastSignal = NoSignal
    /\ inflight = <<>>
    /\ busd = 0
    /\ wbtc = 0
    /\ transactions = <<>>
    /\ log = Logged("init", "none", "none")
    /\ dexFails = 0
    /\ running = TRUE
    /\ calc = NoCalc
    /\ dexPrice \in DexPrices \union {0}
    /\ currentData \in [price : RefPrices, rsi : RsiValues, ema : EmaValues]
    /\ fetchedIn = [price |-> 0, rsi |-> 0, ema |-> 0]
    /\ requestQueue = <<>>
    /\ cyclesIssued = 0
    /\ marketData = NoMarketData
    /\ dexPolls = {}
    /\ pollsIssued = 0
    /\ dexStored = 0
    /\ previousRsi = NULL
    /\ previousEma = NULL
    /\ RateLimitingInit
    /\ NoSocket
    /\ NoTimers

\* The interval of startPolling fires: fetchDataSequentially starts and its
\* request for the price joins the queue
TaapiPoll ==
    /\ running
    /\ cyclesIssued < MaxCycles
    /\ cyclesIssued' = cyclesIssued + 1
    /\ requestQueue' = Append(requestQueue,
                              [cycle |-> cyclesIssued + 1, step |-> "price"])
    /\ log' = Logged("fetch", "none", "taapi")
    /\ UNCHANGED <<dexPrice, running, currentData, fetchedIn, marketData,
                   dexPolls, pollsIssued, dexStored>>
    /\ UNCHANGED botVars

\* processRequestQueue gets the answer v to the request at the head of the
\* queue: fetchDataSequentially stores it and queues its next request, or,
\* after the EMA, calls the callback with a copy of currentData
TaapiResponse(v) ==
    LET req == Head(requestQueue)
        data == [currentData EXCEPT ![req.step] = v]
    IN  /\ running
        /\ requestQueue # <<>>
        /\ v \in TaapiValues(req.step)
        /\ currentData' = data
        /\ fetchedIn' = [fetchedIn EXCEPT ![req.step] = req.cycle]
        /\ requestQueue' =
              IF req.step = "ema" THEN Tail(requestQueue)
              ELSE Append(Tail(requestQueue),
                          [cycle |-> req.cycle, step |-> NextStep(req.step)])
        /\ marketData' = IF req.step = "ema"
                         THEN onDataUpdate(marketData, data)
                         ELSE marketData
        /\ log' = Logged("fetched", req.step, "taapi")
        /\ UNCHANGED <<dexPrice, running, cyclesIssued, dexPolls,
                       pollsIssued, dexStored>>
        /\ UNCHANGED botVars

\* The request at the head of the queue fails: fetchDataSequentially logs
\* and rethrows, the interval callback catches and logs; what the cycle has
\* stored so far stays
TaapiError ==
    /\ running
    /\ requestQueue # <<>>
    /\ requestQueue' = Tail(requestQueue)
    /\ log' = Logged("fetchfail", Head(requestQueue).step, "taapi")
    /\ UNCHANGED <<dexPrice, running, currentData, fetchedIn, cyclesIssued,
                   marketData, dexPolls, pollsIssued, dexStored>>
    /\ UNCHANGED botVars

\* The interval of DexPriceMonitor.startMonitoring fires (it was started
\* only if the first fetch succeeded): updatePrice is suspended at
\* getAmountsOut
DexPollStart ==
    /\ running
    /\ dexPrice # 0
    /\ pollsIssued < MaxPolls
    /\ pollsIssued' = pollsIssued + 1
    /\ dexPolls' = dexPolls \union {pollsIssued + 1}
    /\ log' = Logged("poll", "none", "dex")
    /\ UNCHANGED <<dexPrice, running, currentData, fetchedIn, requestQueue,
                   cyclesIssued, marketData, dexStored>>
    /\ UNCHANGED botVars

\* getAmountsOut of the call id resolves with price p: updatePrice stores
\* it and calls the callback
DexPollDone(id, p) ==
    /\ running
    /\ id \in dexPolls
    /\ dexPolls' = dexPolls \ {id}
    /\ dexPrice' = p
    /\ dexStored' = id
    /\ marketData' = onPriceUpdate(marketData, p)
    /\ log' = Logged("polled", "none", "dex")
    /\ UNCHANGED <<running, currentData, fetchedIn, requestQueue,
                   cyclesIssued, pollsIssued>>
    /\ UNCHANGED botVars

\* getAmountsOut of the call id rejects: updatePrice logs and rethrows, and
\* the interval callback has no catch. The runtime either warns and goes
\* on, or raises the rejection as an uncaught exception, whose handler
\* shuts down and exits (fatal)
DexPollFailed(id, fatal) ==
    /\ running
    /\ id \in dexPolls
    /\ dexPolls' = dexPolls \ {id}
    /\ running' = ~fatal
    /\ log' = Logged("pollfail", "none", "dex")
    /\ UNCHANGED <<dexPrice, currentData, fetchedIn, requestQueue,
                   cyclesIssued, marketData, pollsIssued, dexStored>>
    /\ UNCHANGED botVars

MonNext ==
    \/ TaapiPoll
    \/ \E v \in RefPrices \union RsiValues \union EmaValues :
          TaapiResponse(v)
    \/ TaapiError
    \/ DexPollStart
    \/ \E id \in 1..MaxPolls, p \in DexPrices : DexPollDone(id, p)
    \/ \E id \in 1..MaxPolls, fatal \in BOOLEAN : DexPollFailed(id, fatal)

MonSpec == MonInit /\ [][MonNext]_vars

\* A consumer writes v into the object getCurrentData() returned to it:
\* { ...this.marketData } is a new object whose centralized and dex are the
\* stored objects themselves and whose priceDifference is a copy of the
\* number. A write to the price inside centralized or dex lands in the
\* stored data, a write to priceDifference stays with the consumer
SnapshotWrite(part, v) ==
    /\ running
    /\ log.op # "written"
    /\ marketData' =
          CASE part = "centralized" ->
                 [marketData EXCEPT !.centralized.price = v]
            [] part = "dex" -> [marketData EXCEPT !.dex.price = v]
            [] OTHER -> marketData
    /\ log' = Logged("written", part, "reader")
    /\ UNCHANGED <<dexPrice, running, currentData, fetchedIn, requestQueue,
                   cyclesIssued, dexPolls, pollsIssued, dexStored>>
    /\ UNCHANGED botVars

\* the prices a consumer writes
WrittenPrices == {994}

\* The monitoring service with a consumer of its snapshots; a run is
\* followed up to the first write the consumer makes
SnapshotNext ==
    \/ log.op # "written" /\ TaapiPoll
    \/ log.op # "written" /\
          \E v \in RefPrices \union RsiValues \union EmaValues :
              TaapiResponse(v)
    \/ log.op # "written" /\ TaapiError
    \/ log.op # "written" /\ DexPollStart
    \/ log.op # "written" /\
          \E id \in 1..MaxPolls, p \in DexPrices : DexPollDone(id, p)
    \/ log.op # "written" /\
          \E id \in 1..MaxPolls, fatal \in BOOLEAN : DexPollFailed(id, fatal)
    \/ \E part \in {"centralized", "dex", "priceDifference"},
          v \in WrittenPrices : SnapshotWrite(part, v)

SnapshotSpec == MonInit /\ [][SnapshotNext]_vars

-----------------------------------------------------------------------------
(* The rate-limited request queue of TaapiService, with the time between    *)
(* its requests. Time passes up to the next timer or response that is due   *)
(* (Tick), and by any of Delays while nothing is pending.                   *)

\* response times of a request function, and pauses of an idle queue (ms)
Durations == {200, 16000}
Delays == {5000, 15000}

Outcomes == {"ok", "error", "429"}

rlFrame == <<coreVars, monVars, indVars, wsVars, timerVars>>

Aged(t, d) == IF t + d > AgeCap THEN AgeCap ELSE t + d

\* what the queue is doing: "idle", or the await or timer its pass is at
QueueActivity ==
    IF passes = {} THEN "idle" ELSE (CHOOSE p \in passes : TRUE).phase

\* requestFn() of request req is called; its response takes d ms
CallRequestFn(req, d, rest) ==
    /\ passes' = rest \union {[req |-> req, phase |-> "inflight", left |-> d]}
    /\ started' = Append(started, [req |-> req, after |-> timeSinceStart])
    /\ timeSinceStart' = 0

\* processRequestQueue() up to its first await, called with q in the queue
\* while the passes of rest are pending
processRequestQueue(q, rest) ==
    IF q = <<>>
    THEN /\ processing' = FALSE
         /\ queue' = q
         /\ passes' = rest
         /\ UNCHANGED <<started, timeSinceStart>>
    ELSE LET timeToWait ==
                 IF minTimeBetweenRequests - timeSinceLastRequest > 0
                 THEN minTimeBetweenRequests - timeSinceLastRequest
                 ELSE 0
         IN  /\ processing' = TRUE
             /\ queue' = Tail(q)
             /\ IF timeToWait > 0
                THEN /\ passes' = rest \union {[req |-> Head(q),
                                                phase |-> "waiting",
                                                left |-> timeToWait]}
                     /\ UNCHANGED <<started, timeSinceStart>>
                ELSE \E d \in Durations : CallRequestFn(Head(q), d, rest)

\* mutant of makeRateLimitedRequest: every call starts a pass
makeRateLimitedRequestUnguarded ==
    /\ Len(enqueued) < MaxRequests
    /\ enqueued' = Append(enqueued, QueueActivity)
    /\ processRequestQueue(Append(queue, Len(enqueued) + 1), passes)
    /\ UNCHANGED <<timeSinceLastRequest, minTimeBetweenRequests, settled,
                   rlFrame>>

\* makeRateLimitedRequest(requestFn): the request joins the queue, and a
\* pass over the queue starts unless one is under way
makeRateLimitedRequest ==
    /\ Len(enqueued) < MaxRequests
    /\ enqueued' = Append(enqueued, QueueActivity)
    /\ IF ~processing
       THEN processRequestQueue(Append(queue, Len(enqueued) + 1), passes)
       ELSE /\ queue' = Append(queue, Len(enqueued) + 1)
            /\ UNCHANGED <<processing, passes, started, timeSinceStart>>
    /\ UNCHANGED <<timeSinceLastRequest, minTimeBetweenRequests, settled,
                   rlFrame>>

\* the timer of the waiting time fires and the pass calls requestFn()
WaitDone(p) ==
    /\ p.phase = "waiting"
    /\ p.left = 0
    /\ \E d \in Durations : CallRequestFn(p.req, d, passes \ {p})
    /\ UNCHANGED <<queue, processing, timeSinceLastRequest,
                   minTimeBetweenRequests, enqueued, settled, rlFrame>>

\* mutant of RequestDone: a pass that ends with a rejection schedules no
\* further pass
RequestDoneStopsOnError(p, o) ==
    /\ p.phase = "inflight"
    /\ p.left = 0
    /\ timeSinceLastRequest' = IF o = "ok" THEN 0 ELSE timeSinceLastRequest
    /\ minTimeBetweenRequests' =
           IF o = "429" THEN minTimeBetweenRequests + RateLimitStep
           ELSE minTimeBetweenRequests
    /\ settled' = Append(settled, [req |-> p.req,
                                   how |-> IF o = "ok" THEN "resolved"
                                           ELSE "rejected"])
    /\ passes' = IF o = "ok"
                 THEN (passes \ {p}) \union
                          {[req |-> 0, phase |-> "gap", left |-> QueueGap]}
                 ELSE passes \ {p}
    /\ UNCHANGED <<queue, processing, enqueued, started, timeSinceStart,
                   rlFrame>>

\* requestFn() of pass p settles with outcome o: processRequestQueue from
\* the await of the request to its end
RequestDone(p, o) ==
    /\ p.phase = "inflight"
    /\ p.left = 0
    /\ timeSinceLastRequest' = IF o = "ok" THEN 0 ELSE timeSinceLastRequest
    /\ minTimeBetweenRequests' =
           IF o = "429" THEN minTimeBetweenRequests + RateLimitStep
           ELSE minTimeBetweenRequests
    /\ settled' = Append(settled, [req |-> p.req,
                                   how |-> IF o = "ok" THEN "resolved"
                                           ELSE "rejected"])
    /\ passes' = (passes \ {p}) \union
                     {[req |-> 0, phase |-> "gap", left |-> QueueGap]}
    /\ UNCHANGED <<queue, processing, enqueued, started, timeSinceStart,
                   rlFrame>>

\* the timer set at the end of a pass fires: the next pass
GapDone(p) ==
    /\ p.phase = "gap"
    /\ p.left = 0
    /\ processRequestQueue(queue, passes \ {p})
    /\ UNCHANGED <<timeSinceLastRequest, minTimeBetweenRequests, enqueued,
                   settled, rlFrame>>

\* time passes up to the first timer or response that is due
Tick ==
    /\ passes # {}
    /\ \A p \in passes : p.left > 0
    /\ LET d == CHOOSE x \in {p.left : p \in passes} :
                    \A p \in passes : x <= p.left
       IN  /\ passes' = {[p EXCEPT !.left = p.left - d] : p \in passes}
           /\ timeSinceLastRequest' = Aged(timeSinceLastRequest, d)
           /\ timeSinceStart' = Aged(timeSinceStart, d)
    /\ UNCHANGED <<queue, processing, minTimeBetweenRequests, enqueued,
                   started, settled, rlFrame>>

\* d ms pass while the queue is idle
Idle(d) ==
    /\ passes = {}
    /\ timeSinceLastRequest' = Aged(timeSinceLastRequest, d)
    /\ timeSinceStart' = Aged(timeSinceStart, d)
    /\ UNCHANGED <<queue, processing, minTimeBetweenRequests, passes,
                   enqueued, started, settled, rlFrame>>

RlNext ==
    \/ makeRateLimitedRequest
    \/ \E p \in passes : WaitDone(p)
    \/ \E p \in passes, o \in Outcomes : RequestDone(p, o)
    \/ \E p \in passes : GapDone(p)
    \/ Tick
    \/ \E d \in Delays : Idle(d)

\* the service as constructed; the queue reads neither the DEX price nor the
\* data fetched before
RlInit ==
    /\ MonInit
    /\ dexPrice = 0
    /\ currentData = CHOOSE d \in [price : RefPrices, rsi : RsiValues,
                                   ema : EmaValues] : TRUE

RlSpec == RlInit /\ [][RlNext]_vars

\* timers fire, the clock advances and, as the request functions are taken
\* to complete, every response arrives
FairRlSpec ==
    /\ RlSpec
    /\ WF_vars(Tick)
    /\ WF_vars(\E p \in passes : WaitDone(p))
    /\ WF_vars(\E p \in passes, o \in Outcomes : RequestDone(p, o))
    /\ WF_vars(\E p \in passes : GapDone(p))

-----------------------------------------------------------------------------
(* The WebSocket connections of BinanceService. A socket of the ws library  *)
(* that fails emits 'error' and then 'close'; one that is closed by the     *)
(* peer emits 'close' only.                                                 *)

wsFrame == <<dexPrice, rsi, ema, currentPosition, entryPrice, highestPrice,
             lastSignal, inflight, busd, wbtc, transactions, log, dexFails,
             running, calc, monVars, indVars, rlVars, timerVars>>

WsInit ==
    /\ Init
    /\ dexPrice = 0
    /\ busd = 0

NewSocket == [state |-> "connecting", scheduled |-> 0]

Live(sk) == sk.state \in {"connecting", "open"}

\* initialize() calls connectWebSocket()
connectWebSocket ==
    /\ sockets = <<>>
    /\ sockets' = <<NewSocket>>
    /\ UNCHANGED <<binancePrice, reconnectTimers, delivered, wsFrame>>

\* a timer set by an 'error' or 'close' handler fires: connectWebSocket()
Reconnect ==
    /\ reconnectTimers > 0
    /\ Len(sockets) < MaxSockets
    /\ reconnectTimers' = reconnectTimers - 1
    /\ sockets' = Append(sockets, NewSocket)
    /\ UNCHANGED <<binancePrice, delivered, wsFrame>>

\* 'open' on socket i: the subscription is sent
OnOpen(i) ==
    /\ sockets[i].state = "connecting"
    /\ sockets' = [sockets EXCEPT ![i].state = "open"]
    /\ UNCHANGED <<binancePrice, reconnectTimers, delivered, wsFrame>>

\* 'error' on socket i, connecting or open: a reconnect is scheduled
OnError(i) ==
    /\ Live(sockets[i])
    /\ sockets' = [sockets EXCEPT ![i].state = "failed",
                                  ![i].scheduled = @ + 1]
    /\ reconnectTimers' = reconnectTimers + 1
    /\ UNCHANGED <<binancePrice, delivered, wsFrame>>

\* 'close' on socket i, after its 'error' or when the peer closes an open
\* connection: a reconnect is scheduled
OnClose(i) ==
    /\ sockets[i].state \in {"open", "failed"}
    /\ sockets' = [sockets EXCEPT ![i].state = "closed",
                                  ![i].scheduled = @ + 1]
    /\ reconnectTimers' = reconnectTimers + 1
    /\ UNCHANGED <<binancePrice, delivered, wsFrame>>

\* the stream sends a kline with close price `price`: 'message' on every
\* open socket, each storing the price and calling the onPriceUpdate
\* callback
OnMessage(price) ==
    /\ \E i \in 1..Len(sockets) : sockets[i].state = "open"
    /\ binancePrice' = price
    /\ delivered' =
           Cardinality({i \in 1..Len(sockets) : sockets[i].state = "open"})
    /\ UNCHANGED <<sockets, reconnectTimers, wsFrame>>

WsNext ==
    \/ connectWebSocket
    \/ Reconnect
    \/ \E i \in 1..Len(sockets) : OnOpen(i)
    \/ \E i \in 1..Len(sockets) : OnError(i)
    \/ \E i \in 1..Len(sockets) : OnClose(i)
    \/ \E price \in RefPrices : OnMessage(price)

WsSpec == WsInit /\ [][WsNext]_vars

-----------------------------------------------------------------------------
(* The timers of the pollers: DexPriceMonitor.startMonitoring,              *)
(* StopLossManager.startMonitoring, NetworkMonitor.startMonitoring and      *)
(* TaapiService.startCronJob, each with its shutdown                        *)

timerFrame == <<coreVars, monVars, indVars, rlVars, wsVars>>

PollerInit ==
    /\ Init
    /\ dexPrice = 0
    /\ busd = 0

TimersOf(p) == {t \in activeTimers : t[1] = p}

\* mutant of startMonitoring: the new timer is set without clearing the one
\* the handle names
startMonitoringKeepsOld(p) ==
    /\ timersMade[p] < MaxStarts
    /\ activeTimers' = activeTimers \union {<<p, timersMade[p] + 1>>}
    /\ timerHandle' = [timerHandle EXCEPT ![p] = timersMade[p] + 1]
    /\ timersMade' = [timersMade EXCEPT ![p] = @ + 1]
    /\ lastCall' = [lastCall EXCEPT ![p] = "start"]
    /\ UNCHANGED timerFrame

\* startMonitoring() / startCronJob() of poller p: the timer the handle
\* names, if any, is cleared (stopped), and the handle is set to a new one
startMonitoring(p) ==
    /\ timersMade[p] < MaxStarts
    /\ activeTimers' =
           (IF timerHandle[p] # NULL
            THEN activeTimers \ {<<p, timerHandle[p]>>}
            ELSE activeTimers) \union {<<p, timersMade[p] + 1>>}
    /\ timerHandle' = [timerHandle EXCEPT ![p] = timersMade[p] + 1]
    /\ timersMade' = [timersMade EXCEPT ![p] = @ + 1]
    /\ lastCall' = [lastCall EXCEPT ![p] = "start"]
    /\ UNCHANGED timerFrame

\* shutdown() of poller p: the timer is cleared and the handle kept
shutdownPoller(p) ==
    /\ activeTimers' =
           IF timerHandle[p] # NULL
           THEN activeTimers \ {<<p, timerHandle[p]>>}
           ELSE activeTimers
    /\ lastCall' = [lastCall EXCEPT ![p] = "shutdown"]
    /\ UNCHANGED <<timerHandle, timersMade, timerFrame>>

PollerNext ==
    \/ \E p \in Pollers : startMonitoring(p)
    \/ \E p \in Pollers : shutdownPoller(p)

PollerSpec == PollerInit /\ [][PollerNext]_vars

-----------------------------------------------------------------------------
(* Trade execution: single flight, position transitions, stale intents *)

LastTrade == transactions[Len(transactions)]

\* C1: at most one trade execution is in progress at any time; a trigger
\* raised while an executeBuy / executeSell has not finished starts no second
\* execution. (Stated for a working DEX feed, so that a refutation does not
\* rest on a signal raised from a DEX price of 0.)
C1_SingleFlight == dexPrice # 0 => Len(inflight) <= 1

\* C2: the position always agrees with the last confirmed trade: LONG after
\* a recorded buy, FLAT after a recorded sell, whichever path started it.
C2_PositionFollowsTrade ==
    transactions # <<>> =>
        currentPosition = (IF LastTrade.type = "buy" THEN "long" ELSE NOPOS)

\* C3: the position goes FLAT -> LONG only in a step that records a buy and
\* LONG -> FLAT only in a step that records a sell; a step in which an
\* execution ends without a record (it threw, or returned false) leaves
\* position type, entry price and highest price as they were.
C3_PositionMovesOnlyOnRecord ==
    [][ /\ (currentPosition = NOPOS /\ currentPosition' = "long") =>
              /\ Len(transactions') = Len(transactions) + 1
              /\ transactions'[Len(transactions')].type = "buy"
        /\ (currentPosition = "long" /\ currentPosition' = NOPOS) =>
              /\ Len(transactions') = Len(transactions) + 1
              /\ transactions'[Len(transactions')].type = "sell"
        /\ (Len(inflight') < Len(inflight) /\ transactions' = transactions) =>
              UNCHANGED <<currentPosition, entryPrice, highestPrice>>
      ]_vars

\* a buy was recorded and opened the position, and afterwards an execution
\* ended without a record
C3_Witness ==
    /\ log.op \in {"failed", "notrade"}
    /\ currentPosition = "long"
    /\ Len(transactions) = 1
    /\ LastTrade.type = "buy"

\* C4: when a swap is submitted the position is the one the intent assumed:
\* no BUY swap is sent while LONG and no SELL swap is sent while FLAT.
\* (Stated for a working DEX feed, as C1.)
C4_NoStaleSwap ==
    (dexPrice # 0 /\ log.op = "submitted") =>
        currentPosition = (IF log.kind = "buy" THEN NOPOS ELSE "long")

\* C5: while the position stays LONG, highestPrice never decreases.
C5_PeakNeverDecreases ==
    [][ (currentPosition = "long" /\ currentPosition' = "long") =>
            highestPrice' >= highestPrice ]_vars

\* The trailing-stop bookkeeping of an open position is consistent
PeakAtLeastEntry == currentPosition = "long" => highestPrice >= entryPrice

\* C6: while LONG highestPrice >= entryPrice; a recorded buy leaves the
\* position LONG with entryPrice = highestPrice = the price of the fill; a
\* recorded sell leaves it FLAT with entryPrice and highestPrice cleared.
C6_PeakEntryAndTransitions ==
    /\ PeakAtLeastEntry
    /\ (log.op = "filled" /\ log.kind = "buy") =>
          /\ currentPosition = "long"
          /\ entryPrice = dexPrice
          /\ highestPrice = dexPrice
    /\ (log.op = "filled" /\ log.kind = "sell") =>
          /\ currentPosition = NOPOS
          /\ entryPrice = NULL
          /\ highestPrice = NULL

-----------------------------------------------------------------------------
(* Signal detection. After a price step the position and the DEX price are *)
(* the ones the evaluation read, and binancePrice, rsi and ema the ones it *)
(* used.                                                                   *)

\* C7: an evaluation never emits BUY while the position is LONG and never
\* emits SELL while it is FLAT.
C7_SignalMatchesPosition ==
    log.op = "price" =>
        /\ (log.kind \in {"buy", "both"} => currentPosition = NOPOS)
        /\ (log.kind \in {"sell", "both"} => currentPosition = "long")

\* a SELL signal was emitted, with the position LONG
C7_Witness ==
    /\ log.op = "price"
    /\ log.kind = "sell"
    /\ currentPosition = "long"

C9_SellIffAllThree ==
    (log.op = "price" /\ currentPosition = "long" /\ dexPrice # 0) =>
        ( log.kind = "sell" <=>
            /\ rsi # NULL
            /\ rsi > RsiOverboughtLevel
            /\ ema # NULL
            /\ binancePrice < ema
            /\ (dexPrice - binancePrice) * Scale > MinProfitThreshold * dexPrice )

IsZero(q) == q.k = "fin" /\ q.n = 0

\* C10: a price gap computed from a reference price or a DEX price of 0 is
\* 0: the one calculatePriceDifference returns and the one a signal was
\* decided on.
C10_GapZeroWhenPriceZero ==
    /\ \A b \in RefPrices \union {0} :
          (b = 0 \/ dexPrice = 0) =>
              IsZero(calculatePriceDifference(dexPrice, b))
    /\ (lastSignal.type # "none"
          /\ (lastSignal.binancePrice = 0 \/ lastSignal.dexPrice = 0)) =>
              IsZero(lastSignal.priceGap)

-----------------------------------------------------------------------------
(* Freshness of the data a signal is decided on *)

\* The staleness window in DEX polling periods: a DEX price older than this
\* many periods is stale (the default window is 2 refresh intervals)
StalenessWindow == MaxDexFails - 1

\* C11: no signal is produced from stale data: an evaluation made while the
\* DEX price was last fetched successfully longer ago than the staleness
\* window (its polls keep failing while kline messages keep arriving) emits
\* neither BUY nor SELL.
C11_NoSignalFromStale ==
    (log.op = "price" /\ dexFails > StalenessWindow) => log.kind = "none"

\* C12: one evaluation (one kline message handled) emits at most one signal:
\* never both BUY and SELL, and it starts at most one execution.
C12_AtMostOneSignal ==
    [][ log'.op = "price" =>
          /\ log'.kind # "both"
          /\ Len(inflight') <= Len(inflight) + 1 ]_vars

\* an evaluation emitted BUY and started one execution next to one that was
\* already running
C12_Witness ==
    /\ log.op = "price"
    /\ log.kind = "buy"
    /\ Len(inflight) = 2

-----------------------------------------------------------------------------
(* The trailing stop *)

\* C13: shouldTriggerStopLoss(price) is true exactly when the position is
\* LONG and price < peak * (1 - trailingStopLoss), and false when FLAT; peak
\* 51000 with price 50700 gives true, with price 50745 false.
C13_StopLossPredicate ==
    calc.op = "stop" =>
        /\ calc.out <=>
              /\ calc.type = "long"
              /\ calc.price * Scale < calc.highest * (Scale - TrailingStopLoss)
        /\ calc.type = NOPOS => ~calc.out
        /\ (calc.type = "long" /\ calc.highest = 51000 /\ calc.price = 50700)
              => calc.out
        /\ (calc.type = "long" /\ calc.highest = 51000 /\ calc.price = 50745)
              => ~calc.out

\* the rule was evaluated at the threshold itself
C13_Witness ==
    /\ calc.op = "stop"
    /\ calc.type = "long"
    /\ calc.highest = 51000
    /\ calc.price = 50745
    /\ ~calc.out

-----------------------------------------------------------------------------
(* Failures and exits of an execution *)

\* C14: when the submission of the swap fails (the await of
\* swapExactTokensForTokens rejects), the failure is recorded in the trade
\* history: the step that ends the execution appends a record to it.
\* (Stated for a working DEX feed, as C1.)
C14_FailureRecorded ==
    [][ (/\ dexPrice # 0
         /\ log'.op = "failed"
         /\ \E i \in 1..Len(inflight) :
               /\ inflight[i].pc = "swap"
               /\ inflight' = RemoveAt(inflight, i))
        => Len(transactions') = Len(transactions) + 1 ]_vars

\* C15: every exit path of an execution (filled, no trade, failed with an
\* error) leaves the bot able to serve the next trigger: after an execution
\* has ended the process that handles triggers is still running. (Stated
\* for a working DEX feed, as C1.)
C15_TriggersServedAfterExit ==
    (dexPrice # 0 /\ log.op \in {"filled", "notrade", "failed"}) => running

-----------------------------------------------------------------------------
(* Sizing and slippage *)

\* C16: the trade size is balance * maxCapitalPerTrade rounded down to a
\* whole unit (balance * 10 / 100 in integers); balance 1000 gives 100, and
\* the size never exceeds a non-negative balance.
C16_SizeIsFlooredFraction ==
    calc.op = "size" =>
        /\ calc.out * 100 <= calc.balance * MaxPercent
        /\ calc.balance * MaxPercent < (calc.out + 1) * 100
        /\ calc.out <= calc.balance
        /\ calc.balance = 1000 => calc.out = 100

\* a balance that the fraction does not divide was sized
C16_Witness ==
    /\ calc.op = "size"
    /\ calc.balance = 29
    /\ calc.out = 2

\* the size an execution of this kind gets from the balances is 0
SizeIsZero(kind) ==
    IF kind = "buy" THEN busd * MaxPercent < 100 ELSE wbtc <= 0

C18_MinIsFlooredTolerance ==
    calc.op = "slip" =>
        /\ calc.out * 10000 <= calc.amount * SlippageFactor
        /\ calc.amount * SlippageFactor < (calc.out + 1) * 10000
        /\ calc.amount = 1000 => calc.out = 998

\* the minimum of a sell was rounded down
C18_Witness ==
    /\ calc.op = "slip"
    /\ calc.tradeType = "sell"
    /\ calc.amount = 29
    /\ calc.out = 28

\* C19: for a positive balance and a positive expected output, the minimum
\* passed to the swap is never above the expected output, and the expected
\* output is a quote of the sized amount, itself within the balance.
C19_MinExpectedSize ==
    (calc.op = "trade" /\ calc.balance > 0 /\ calc.expected > 0) =>
        /\ calc.min <= calc.expected
        /\ calc.expected \in getAmountsOut(calc.kind, calc.size)
        /\ calc.size <= calc.balance

\* a sell of a positive balance with a positive quote got its minimum
C19_Witness ==
    /\ calc.op = "trade"
    /\ calc.kind = "sell"
    /\ calc.balance = 1000
    /\ calc.expected = 1000
    /\ calc.min = 998

\* C20: an expected output <= 0 is rejected and no swap is submitted for
\* it: every swap that was submitted has an expected output above 0.
\* (Stated for a working DEX feed, as C1.)
C20_NoSwapForZeroQuote ==
    dexPrice # 0 =>
        \A i \in 1..Len(inflight) :
            inflight[i].pc = "wait" => inflight[i].out > 0

-----------------------------------------------------------------------------
(* Shutdown *)

\* C21: on a shutdown signal a trade submission that is in flight is not
\* cancelled: the process exits only after the executeBuy / executeSell has
\* finished and its result has been applied, so when the process has exited
\* on a signal no execution is left suspended. (Stated for a working DEX
\* feed, as C1.)
C21_ExitWaitsForTrade ==
    (dexPrice # 0 /\ log.op = "shutdown") => inflight = <<>>

\* C22: after shutdown has been called no periodic producer fires again and
\* no update callback is delivered: no poll, fetch, kline message or
\* stop-loss tick, nor any other step of the program, is taken from a state
\* that the shutdown left.
C22_NothingFiresAfterShutdown == [][log.op # "shutdown"]_vars

\* the bot was shut down while it held a position that the stop-loss timer
\* was watching
C22_Witness ==
    /\ log.op = "shutdown"
    /\ ~running
    /\ currentPosition = "long"
    /\ dexPrice # 0

-----------------------------------------------------------------------------
(* Failures, missing prices and the stop-loss timer *)

\* C24: transient failures are absorbed and never fatal: no step of the
\* running bot (a failed fetch or a failed execution among them) halts the
\* process. (Stated for a working DEX feed, as C1; no shutdown signal is
\* delivered in the specification this is checked under.)
C24_FailuresNeverFatal == [][(dexPrice # 0 /\ running) => running']_vars

\* C25: no BUY or SELL signal is emitted while the DEX price is 0 or was
\* never fetched: an evaluation that read a DEX price of 0 emits nothing.
C25_NoSignalWithoutDexPrice ==
    (log.op = "price" /\ dexPrice = 0) => log.kind = "none"

\* C26: a stop-loss tick with the position FLAT changes nothing and starts
\* no trade; with the position LONG it ratchets the peak with the current
\* DEX price, and it starts a SELL execution if and only if that price is
\* below the ratcheted peak by more than the trailing stop.
C26_TickRatchetsThenDecides ==
    [][ log'.op = "tick" =>
          IF currentPosition = NOPOS
          THEN /\ log'.kind = "none"
               /\ UNCHANGED <<binancePrice, dexPrice, rsi, ema,
                              currentPosition, entryPrice, highestPrice,
                              lastSignal, inflight, busd, wbtc, transactions,
                              running>>
          ELSE /\ UNCHANGED <<currentPosition, entryPrice, dexPrice,
                              transactions, busd, wbtc>>
               /\ highestPrice' = IF dexPrice > highestPrice THEN dexPrice
                                  ELSE highestPrice
               /\ IF /\ highestPrice' # 0
                     /\ dexPrice * Scale <
                            highestPrice' * (Scale - TrailingStopLoss)
                  THEN /\ log'.kind = "sell"
                       /\ inflight' =
                             Append(inflight, NewTask("sell", "stoploss"))
                  ELSE /\ log'.kind = "none"
                       /\ inflight' = inflight ]_vars

\* a tick found the DEX price below the stop of the peak and started a sell
C26_Witness ==
    /\ log.op = "tick"
    /\ log.kind = "sell"
    /\ currentPosition = "long"
    /\ dexPrice # 0
    /\ highestPrice > dexPrice
    /\ inflight # <<>>

-----------------------------------------------------------------------------
(* The trade history *)

\* C23: the trade history is append-only: every step leaves the records it
\* held in place, unchanged and in order, a completed execution appends
\* exactly one record, and this holds also for what a consumer does to the
\* list handed out by getTransactionHistory.
C23_HistoryAppendOnly ==
    [][ /\ Len(transactions') >= Len(transactions)
        /\ SubSeq(transactions', 1, Len(transactions)) = transactions
        /\ log'.op = "filled" => Len(transactions') = Len(transactions) + 1
      ]_vars

-----------------------------------------------------------------------------
(* Market data of the monitoring service *)

\* C27: after every feed update, and so whenever a reader looks, the stored
\* priceDifference is the gap of the stored reference price and the stored
\* DEX price together: (reference - dex) / dex, or 0 while either is 0; the
\* side that was just updated holds what its feed holds.
C27_GapMatchesStoredPrices ==
    LET c == marketData.centralized.price
        d == marketData.dex.price
        g == marketData.priceDifference
    IN  /\ g.k = "fin"
        /\ IF c = 0 \/ d = 0 THEN g.n = 0
           ELSE g.n * d = (c - d) * g.d
        /\ (log.op = "fetched" /\ log.kind = "ema") =>
              marketData.centralized = currentData
        /\ log.op = "polled" => d = dexPrice

\* a DEX poll replaced the DEX price next to a reference price that a
\* completed fetch cycle had stored
C27_Witness ==
    /\ log.op = "polled"
    /\ marketData.centralized.price = 1007
    /\ marketData.dex.price = 994
    /\ marketData.priceDifference.n = 13

\* C28: when two fetches of one feed overlap and the older one completes
\* last, its result is discarded: the stored DEX price is never replaced by
\* the result of a call of updatePrice older than the one that stored it.
C28_OlderResultDiscarded == [][dexStored' >= dexStored]_vars

\* C29: the reference price, RSI and EMA that a reader of TaapiService
\* finds at any moment come from the same fetch cycle, also when a cycle
\* fails part-way.
C29_SameFetchCycle ==
    /\ fetchedIn.price = fetchedIn.rsi
    /\ fetchedIn.rsi = fetchedIn.ema

\* C30: a snapshot handed to a consumer is an immutable copy: no write a
\* consumer makes to the object returned by getCurrentData(), its nested
\* parts included, alters the stored market data.
C30_SnapshotIsCopy == [][log'.op = "written" => marketData' = marketData]_vars

-----------------------------------------------------------------------------
(* IndicatorCalculator *)

Unset(x) == x = NULL \/ x = UNDEF

\* C31: after every successful indicator update previousRsi and previousEma
\* are the RSI and EMA that were current just before it; an update that
\* fails for too little price data changes none of the four values.
C31_PreviousIsOneStepBack ==
    [][ log'.op = "indicators" =>
          IF log'.kind = "updated"
          THEN previousRsi' = rsi /\ previousEma' = ema
          ELSE UNCHANGED <<rsi, ema, previousRsi, previousEma>> ]_vars

\* C32: while RSI is unset isRsiOversold and isRsiOverbought are both
\* false, and neither check emits a signal, whatever the prices.
C32_NoSignalWhileRsiUnset ==
    (calc.op = "ind" /\ Unset(calc.rsi)) =>
        /\ ~calc.oversold
        /\ ~calc.overbought
        /\ ~calc.buy
        /\ ~calc.sell

\* the predicates were evaluated before the first indicator update
C32_Witness ==
    /\ calc.op = "ind"
    /\ calc.rsi = NULL
    /\ ~calc.oversold
    /\ log.op = "init"

\* C33: isRsiRisingFromOversold is true only if the previous RSI was below
\* the oversold level and the current RSI is strictly greater than it;
\* isRsiFallingFromOverbought only if the previous RSI was above the
\* overbought level and the current RSI is strictly lower; both are false
\* when either value is unset.
C33_RisingAndFalling ==
    calc.op = "ind" =>
        /\ calc.rising =>
              /\ calc.previousRsi < RsiOversoldLevel
              /\ calc.rsi > calc.previousRsi
        /\ calc.falling =>
              /\ calc.previousRsi > RsiOverboughtLevel
              /\ calc.rsi < calc.previousRsi
        /\ (Unset(calc.previousRsi) \/ Unset(calc.rsi)) =>
              ~calc.rising /\ ~calc.falling

\* the RSI rose from 25 to the oversold level
C33_Witness ==
    /\ calc.op = "ind"
    /\ calc.previousRsi = 25
    /\ calc.rsi = 30
    /\ calc.rising
    /\ ~calc.falling

\* C34: an RSI or EMA value that is not a finite positive number (a value
\* missing because the series is too short for its period among them) is
\* never stored as the current RSI or EMA: the update fails instead.
C34_InvalidNeverStored == rsi # UNDEF /\ ema # UNDEF

-----------------------------------------------------------------------------
(* The rate-limited request queue *)

\* C35: every request but the first starts at least minTimeBetweenRequests
\* (as constructed, the least value it takes) after the start of the request
\* before it, whether that one succeeded or failed
C35_RequestsSpacedOut ==
    \A i \in 2..Len(started) : started[i].after >= MinTimeBetweenRequests

InFlight == {p \in passes : p.phase = "inflight"}

\* C36: at most one request function is executing, whenever the calls of
\* makeRateLimitedRequest are made, and the requests are started in the
\* order they were enqueued
C36_OneAtATimeInOrder ==
    /\ Cardinality(InFlight) <= 1
    /\ \A i \in 1..Len(started) : started[i].req = i

C36_Witness ==
    /\ \E i \in 1..Len(enqueued) : enqueued[i] = "inflight"
    /\ \E i \in 1..Len(enqueued) : enqueued[i] = "gap"
    /\ Len(started) = MaxRequests
    /\ Cardinality(InFlight) = 1

Settlements(i) == {k \in 1..Len(settled) : settled[k].req = i}

WasStarted(i) == \E k \in 1..Len(started) : started[k].req = i

\* C37: every request passed to makeRateLimitedRequest is eventually
\* started and its promise settled, and no promise is settled twice, also
\* after a request that failed or was answered with status 429
C37_EveryRequestSettles ==
    /\ [](\A i \in 1..MaxRequests : Cardinality(Settlements(i)) <= 1)
    /\ \A i \in 1..MaxRequests :
           (Len(enqueued) >= i) ~>
               (WasStarted(i) /\ Cardinality(Settlements(i)) = 1)

C37_Witness ==
    /\ Len(settled) = MaxRequests
    /\ settled[1].how = "rejected"
    /\ minTimeBetweenRequests > MinTimeBetweenRequests
    /\ settled[MaxRequests].how = "resolved"
    /\ queue = <<>>

-----------------------------------------------------------------------------
(* The WebSocket of BinanceService and the timers of the pollers *)

LiveSockets == {i \in 1..Len(sockets) : Live(sockets[i])}

\* C38: at most one WebSocket is open or connecting, no socket schedules
\* more than one reconnect, and a price message reaches the price-update
\* handler once
C38_SingleConnection ==
    /\ Cardinality(LiveSockets) <= 1
    /\ \A i \in 1..Len(sockets) : sockets[i].scheduled <= 1
    /\ delivered <= 1

\* C39: a poller has at most one timer ticking, and after a call of its
\* start function exactly one, the one its handle names
C39_OneTimerPerPoller ==
    \A p \in Pollers :
        /\ Cardinality(TimersOf(p)) <= 1
        /\ lastCall[p] = "start" => TimersOf(p) = {<<p, timerHandle[p]>>}

C39_Witness ==
    \E p \in Pollers :
        /\ timersMade[p] = MaxStarts
        /\ lastCall[p] = "start"
        /\ TimersOf(p) = {<<p, MaxStarts>>}

====
